---- MODULE Spec2Model ----
(***************************************************************************)
(* Model of pipeline_profile_app_5j.py: the Markdown table recovery parser *)
(* parse_markdown_table and the Streamlit host loop that stores its result *)
(* in st.session_state["data_table"].                                      *)
(*                                                                         *)
(* A Python str is a sequence of one-character strings.  A DataFrame is a  *)
(* record with its column labels, its index labels and its rows; a call    *)
(* that raises is a record with status "raise" and the exception's name.   *)
(***************************************************************************)
EXTENDS Integers, Sequences, FiniteSets

VARIABLES pc, ocr_text, cleaned_text, table_lines, is_table, table_data,
          headers, data, df, result, data_table, history, run

vars == <<pc, ocr_text, cleaned_text, table_lines, is_table, table_data,
          headers, data, df, result, data_table, history, run>>

\* Longest OCR text the parser is run on, in lines.
MaxLines == 4

\* Number of uploaded files the host processes in one session.
MaxFiles == 3

----------------------------------------------------------------------------
(* Characters and Python str methods                                        *)

UpperCase == <<"A","B","C","D","E","F","G","H","I","J","K","L","M",
               "N","O","P","Q","R","S","T","U","V","W","X","Y","Z">>

LowerCase == <<"a","b","c","d","e","f","g","h","i","j","k","l","m",
               "n","o","p","q","r","s","t","u","v","w","x","y","z">>

Digits == <<"0","1","2","3","4","5","6","7","8","9">>

\* The literal "EXISTING LEVELS" of line 89.
SENTINEL == <<"E","X","I","S","T","I","N","G"," ","L","E","V","E","L","S">>

\* The characters str.strip() removes.
IsSpace(c) == c \in {" ", "\t", "\n", "\r"}

\* The line boundaries of str.splitlines().
IsLineBreak(c) == c \in {"\n", "\r"}

\* Case folding of one character, as re.IGNORECASE compares.
lower(c) ==
  IF \E i \in 1..26 : UpperCase[i] = c
  THEN LowerCase[CHOOSE i \in 1..26 : UpperCase[i] = c]
  ELSE c

lower_str(s) == [i \in 1..Len(s) |-> lower(s[i])]

\* sub in s
contains(s, sub) ==
  \E i \in 0..(Len(s) - Len(sub)) :
     \A k \in 1..Len(sub) : s[i + k] = sub[k]

\* Series.str.contains(sub, case=False) on one value
contains_nocase(s, sub) == contains(lower_str(s), lower_str(sub))

SetMin(S) == CHOOSE x \in S : \A y \in S : x <= y

SetMax(S) == CHOOSE x \in S : \A y \in S : x >= y

\* str.strip()
strip(s) ==
  LET keep == {i \in 1..Len(s) : ~IsSpace(s[i])}
  IN  IF keep = {} THEN <<>> ELSE SubSeq(s, SetMin(keep), SetMax(keep))

\* str.split(sep) for a one-character separator
RECURSIVE split(_, _)
split(s, sep) ==
  LET at == {i \in 1..Len(s) : s[i] = sep}
  IN  IF at = {} THEN <<s>>
      ELSE <<SubSeq(s, 1, SetMin(at) - 1)>>
             \o split(SubSeq(s, SetMin(at) + 1, Len(s)), sep)

\* str.splitlines(): a break ends the current line, "\r\n" is one break, and
\* no empty line follows a final break.
RECURSIVE splitlines(_)
splitlines(s) ==
  LET breaks == {i \in 1..Len(s) : IsLineBreak(s[i])}
      b      == SetMin(breaks)
      next   == IF s[b] = "\r" /\ b < Len(s) /\ s[b + 1] = "\n"
                THEN b + 2 ELSE b + 1
  IN  IF s = <<>> THEN <<>>
      ELSE IF breaks = {} THEN <<s>>
      ELSE <<SubSeq(s, 1, b - 1)>> \o splitlines(SubSeq(s, next, Len(s)))

\* Where the match of \*\*(.*?)\*\* that starts at s[i] finds its closing
\* "**" (0 when there is no match at s[i]): the nearest "**" at or after
\* s[i + 2], with no "\n" before it, since "." does not match a line feed.
match_close(s, i) ==
  IF i + 3 > Len(s) \/ s[i] # "*" \/ s[i + 1] # "*" THEN 0
  ELSE LET close == {j \in (i + 2)..(Len(s) - 1) : s[j] = "*" /\ s[j + 1] = "*"}
       IN  IF close = {} THEN 0
           ELSE IF \E k \in (i + 2)..(SetMin(close) - 1) : s[k] = "\n" THEN 0
           ELSE SetMin(close)

\* re.sub(r"\*\*(.*?)\*\*", r"\1", s): the leftmost match is replaced by its
\* group, and the search goes on after the match (matches do not overlap)
RECURSIVE re_sub(_)
re_sub(s) ==
  LET starts == {i \in 1..Len(s) : match_close(s, i) > 0}
      i      == SetMin(starts)
      j      == match_close(s, i)
  IN  IF starts = {} THEN s
      ELSE SubSeq(s, 1, i - 1) \o SubSeq(s, i + 2, j - 1)
             \o re_sub(SubSeq(s, j + 2, Len(s)))

----------------------------------------------------------------------------
(* Cell values and DataFrames                                               *)

Str(s) == [kind |-> "str", s |-> s, m |-> 0, e |-> 0]

\* The number m / 10^e
Num(m, e) == [kind |-> "num", s |-> <<>>, m |-> m, e |-> e]

\* NaN, the value errors="coerce" stores
Missing == [kind |-> "missing", s |-> <<>>, m |-> 0, e |-> 0]

DigitVal(c) == (CHOOSE i \in 1..10 : Digits[i] = c) - 1

IsDigit(c) == \E i \in 1..10 : Digits[i] = c

RECURSIVE DigitsVal(_)
DigitsVal(s) ==
  IF s = <<>> THEN 0
  ELSE 10 * DigitsVal(SubSeq(s, 1, Len(s) - 1)) + DigitVal(s[Len(s)])

RECURSIVE Normalise(_, _)
Normalise(m, e) ==
  IF e > 0 /\ m % 10 = 0 THEN Normalise(m \div 10, e - 1) ELSE Num(m, e)

\* pd.to_numeric(value, errors="coerce") on one string: a decimal literal
\* (sign, digits, at most one point) becomes its number, anything else NaN.
to_numeric(s) ==
  LET signed == s # <<>> /\ s[1] \in {"+", "-"}
      body   == IF signed THEN Tail(s) ELSE s
      dots   == {i \in 1..Len(body) : body[i] = "."}
      digs   == SelectSeq(body, IsDigit)
      wellformed == /\ Cardinality(dots) <= 1
                    /\ digs # <<>>
                    /\ Len(digs) + Cardinality(dots) = Len(body)
      scale  == IF dots = {} THEN 0 ELSE Len(body) - SetMin(dots)
      mag    == Normalise(DigitsVal(digs), scale)
  IN  IF ~wellformed THEN Missing
      ELSE IF s[1] = "-" THEN Num(0 - mag.m, mag.e) ELSE mag

Frame(cols, idx, rows) ==
  [status |-> "ok", exc |-> "", columns |-> cols, index |-> idx, rows |-> rows]

Raise(name) ==
  [status |-> "raise", exc |-> name, columns |-> <<>>, index |-> <<>>,
   rows |-> <<>>]

\* pd.DataFrame()
EmptyFrame == Frame(<<>>, <<>>, <<>>)

\* DataFrame.empty: some axis has length 0
empty(f) == Len(f.columns) = 0 \/ Len(f.rows) = 0

\* The index 0 .. n-1 of a new frame
RangeIndex(n) == [i \in 1..n |-> i - 1]

\* pd.DataFrame(rows, columns=cols) on a list of lists of str: the frame is as
\* wide as the longest row, shorter rows are filled with None, and a width
\* other than len(cols) raises ValueError.
DataFrame(rows, cols) ==
  IF rows = <<>> THEN Frame(cols, <<>>, <<>>)
  ELSE LET width == SetMax({Len(rows[i]) : i \in 1..Len(rows)})
       IN  IF width # Len(cols) THEN Raise("ValueError")
           ELSE Frame(cols, RangeIndex(Len(rows)),
                      [i \in 1..Len(rows) |->
                         [j \in 1..width |->
                            IF j <= Len(rows[i]) THEN Str(rows[i][j])
                            ELSE Missing]])

----------------------------------------------------------------------------
(* parse_markdown_table, stage by stage                                     *)

PIPE == <<"|">>

RULE == <<"-", "-", "-">>

\* line 66: "|" in line and "---" in line
IsSeparator(line) == contains(line, PIPE) /\ contains(line, RULE)

\* Faulty variant of IsDataRow: the test of line 71 for a pipe is dropped
IsDataRow_any(line) == ~IsSeparator(line)

\* line 71, reached only when line 66 did not continue
IsDataRow(line) == ~IsSeparator(line) /\ contains(line, PIPE)

NonEmpty(c) == c # <<>>

\* line 72: [cell.strip() for cell in line.split("|") if cell.strip()]
tokenize(line) ==
  LET cells == split(line, "|")
  IN  SelectSeq([i \in 1..Len(cells) |-> strip(cells[i])], NonEmpty)

\* Faulty variant of scan_lines: once the latch is set, a separator is a data line
RECURSIVE scan_lines_latched(_, _, _)
scan_lines_latched(lines, rows, latch) ==
  IF lines = <<>> THEN [table_data |-> rows, is_table |-> latch]
  ELSE IF IsSeparator(lines[1]) /\ ~latch
       THEN scan_lines_latched(Tail(lines), rows, TRUE)
  ELSE IF contains(lines[1], PIPE)
       THEN scan_lines_latched(Tail(lines), Append(rows, tokenize(lines[1])),
                               latch)
  ELSE scan_lines_latched(Tail(lines), rows, latch)

\* Faulty variant of scan_lines: a row without a cell is not appended
RECURSIVE scan_lines_nonempty(_, _, _)
scan_lines_nonempty(lines, rows, latch) ==
  IF lines = <<>> THEN [table_data |-> rows, is_table |-> latch]
  ELSE IF IsSeparator(lines[1]) THEN scan_lines_nonempty(Tail(lines), rows, TRUE)
  ELSE IF IsDataRow(lines[1]) /\ tokenize(lines[1]) # <<>>
       THEN scan_lines_nonempty(Tail(lines), Append(rows, tokenize(lines[1])),
                                latch)
  ELSE scan_lines_nonempty(Tail(lines), rows, latch)

\* lines 61-73: the loop over the lines; the rows collected and the latch
RECURSIVE scan_lines(_, _, _)
scan_lines(lines, rows, latch) ==
  IF lines = <<>> THEN [table_data |-> rows, is_table |-> latch]
  ELSE IF IsSeparator(lines[1]) THEN scan_lines(Tail(lines), rows, TRUE)
  ELSE IF IsDataRow(lines[1])
       THEN scan_lines(Tail(lines), Append(rows, tokenize(lines[1])), latch)
  ELSE scan_lines(Tail(lines), rows, latch)

\* lines 77-78: the first row, each header stripped again
clean_headers(rows) == [i \in 1..Len(rows[1]) |-> strip(rows[1][i])]

\* Faulty variant of pad_row: one padding cell too few
pad_row_short(row, max_columns) ==
  row \o [k \in 1..(max_columns - Len(row) - 1) |-> <<>>]

\* line 83: row + [""] * (max_columns - len(row)); a negative count adds nothing
pad_row(row, max_columns) ==
  row \o [k \in 1..(max_columns - Len(row)) |-> <<>>]

\* lines 82-83
pad_rows(rows, max_columns) ==
  [i \in 1..Len(rows) |-> pad_row(rows[i], max_columns)]

\* line 89, the mask: first column contains "EXISTING LEVELS", any case, and
\* na=False for a value that is not a string
is_sentinel(cell) == cell.kind = "str" /\ contains_nocase(cell.s, SENTINEL)

\* Faulty variant of drop_sentinel: the match is case-sensitive (case=False left out)
drop_sentinel_cased(f) ==
  IF Len(f.columns) = 0 THEN Raise("IndexError")
  ELSE LET Keep(i) == ~contains(f.rows[i][1].s, SENTINEL)
           kept    == SelectSeq([i \in 1..Len(f.rows) |-> i], Keep)
       IN  Frame(f.columns,
                 [k \in 1..Len(kept) |-> f.index[kept[k]]],
                 [k \in 1..Len(kept) |-> f.rows[kept[k]]])

\* line 89: df.loc[~mask]; iloc[:, 0] raises IndexError without a column.
\* The rows kept carry their index labels.
drop_sentinel(f) ==
  IF Len(f.columns) = 0 THEN Raise("IndexError")
  ELSE LET Keep(i) == ~is_sentinel(f.rows[i][1])
           kept    == SelectSeq([i \in 1..Len(f.rows) |-> i], Keep)
       IN  Frame(f.columns,
                 [k \in 1..Len(kept) |-> f.index[kept[k]]],
                 [k \in 1..Len(kept) |-> f.rows[kept[k]]])

\* line 90: df.reset_index(drop=True)
reset_index(f) == Frame(f.columns, RangeIndex(Len(f.rows)), f.rows)

\* Faulty variant of coerce_cell: errors="ignore", the unparsed string is kept
coerce_cell_ignore(cell) ==
  IF cell.kind = "str" /\ to_numeric(cell.s) # Missing
  THEN to_numeric(cell.s) ELSE cell

\* pd.to_numeric(value, errors="coerce") on one cell of a frame
coerce_cell(cell) == IF cell.kind = "str" THEN to_numeric(cell.s) ELSE cell

\* lines 94-95: for col in df.columns[1:]: df[col] = pd.to_numeric(df[col]).
\* df[col] of a label that occurs twice is a DataFrame, and to_numeric of a
\* DataFrame raises TypeError.
coerce_columns(f) ==
  LET cols == f.columns
      twice(j) == \E k \in 1..Len(cols) : k # j /\ cols[k] = cols[j]
  IN  IF \E j \in 2..Len(cols) : twice(j) THEN Raise("TypeError")
      ELSE Frame(cols, f.index,
                 [i \in 1..Len(f.rows) |->
                    [j \in 1..Len(cols) |->
                       IF j = 1 THEN f.rows[i][j]
                       ELSE coerce_cell(f.rows[i][j])]])

\* lines 86-96 on the frame built at line 86
clean_frame(f) ==
  IF f.status = "raise" THEN f
  ELSE LET kept == drop_sentinel(f)
       IN  IF kept.status = "raise" THEN kept
           ELSE coerce_columns(reset_index(kept))

\* lines 53-98 as one function
parse_markdown_table(text) ==
  LET rows == scan_lines(splitlines(re_sub(text)), <<>>, FALSE).table_data
  IN  IF rows = <<>> THEN EmptyFrame
      ELSE clean_frame(DataFrame(pad_rows(Tail(rows), Len(clean_headers(rows))),
                                 clean_headers(rows)))

----------------------------------------------------------------------------
(* The OCR texts the parser is run on                                       *)

\* "|c1|c2|...|"
RECURSIVE Row(_)
Row(cells) ==
  IF cells = <<>> THEN PIPE ELSE PIPE \o cells[1] \o Row(Tail(cells))

CellA     == <<" ", "a", " ">>
CellBoldB == <<" ", "*", "*", "b", "*", "*", " ">>
CellSeven == <<" ", "7">>
CellX     == <<"x">>
CellOne   == <<"1">>
CellNeg   == <<"-", "1", ".", "5", "0">>
CellBlank == <<" ">>
CellStars == <<"*", "*">>
CellLevels ==
  <<"E","x","i","s","t","i","n","g"," ","L","E","V","E","L","S"," ","2">>

LineHeader   == Row(<<CellA, CellBoldB>>)
LineRule     == Row(<<RULE, RULE>>)
LineShort    == Row(<<CellSeven>>)
LineFull     == Row(<<CellX, CellNeg>>)
LineLevels   == Row(<<CellLevels, CellOne>>)
LineBlank    == Row(<<CellBlank>>)
LineLong     == Row(<<CellX, CellOne, CellOne>>)
LineStray    == Row(<<CellStars, CellBoldB>>)
LineProse    == <<"n", "b">>

Lines == {LineHeader, LineRule, LineShort, LineFull, LineLevels, LineBlank,
          LineLong, LineStray, LineProse}

\* "\n".join(ls)
RECURSIVE JoinLines(_)
JoinLines(ls) ==
  IF ls = <<>> THEN <<>>
  ELSE IF Len(ls) = 1 THEN ls[1]
  ELSE ls[1] \o <<"\n">> \o JoinLines(Tail(ls))

\* Every text of at most MaxLines lines
Texts ==
  {JoinLines(ls) : ls \in UNION {[1..n -> Lines] : n \in 0..MaxLines}}

\* The OCR texts of the files uploaded to the host
HostTexts ==
  {JoinLines(ls) : ls \in {<<LineHeader, LineRule, LineFull>>,
                           <<LineHeader, LineShort>>,
                           <<LineHeader, LineRule>>,
                           <<LineHeader, LineLevels>>,
                           <<LineLong, LineFull>>,
                           <<LineProse>>,
                           <<>>}}

----------------------------------------------------------------------------
(* The parser as a state machine: one action per stage of lines 53-98       *)

ParserInit ==
  /\ cleaned_text = <<>>
  /\ table_lines = <<>>
  /\ is_table = FALSE
  /\ table_data = <<>>
  /\ headers = <<>>
  /\ data = <<>>
  /\ df = EmptyFrame
  /\ result = EmptyFrame

HostIdle ==
  /\ data_table = EmptyFrame
  /\ history = <<>>
  /\ run = "off"

Init ==
  /\ pc = "clean"
  /\ ocr_text \in Texts
  /\ ParserInit
  /\ HostIdle

\* line 58
StripEmphasis ==
  /\ pc = "clean"
  /\ cleaned_text' = re_sub(ocr_text)
  /\ pc' = "split"
  /\ UNCHANGED <<ocr_text, table_lines, is_table, table_data, headers, data,
                 df, result, data_table, history, run>>

\* line 60
SplitLines ==
  /\ pc = "split"
  /\ table_lines' = splitlines(cleaned_text)
  /\ pc' = "scan"
  /\ UNCHANGED <<ocr_text, cleaned_text, is_table, table_data, headers, data,
                 df, result, data_table, history, run>>

\* lines 61-73
ScanLines ==
  /\ pc = "scan"
  /\ LET got == scan_lines(table_lines, <<>>, FALSE)
     IN  /\ table_data' = got.table_data
         /\ is_table' = got.is_table
  /\ pc' = "format"
  /\ UNCHANGED <<ocr_text, cleaned_text, table_lines, headers, data, df,
                 result, data_table, history, run>>

\* lines 76, 97-98: no row collected
ReturnEmpty ==
  /\ pc = "format"
  /\ table_data = <<>>
  /\ result' = EmptyFrame
  /\ pc' = "done"
  /\ UNCHANGED <<ocr_text, cleaned_text, table_lines, is_table, table_data,
                 headers, data, df, data_table, history, run>>

\* lines 76-83: headers, body rows, padding
PadRows ==
  /\ pc = "format"
  /\ table_data # <<>>
  /\ headers' = clean_headers(table_data)
  /\ data' = pad_rows(Tail(table_data), Len(clean_headers(table_data)))
  /\ pc' = "frame"
  /\ UNCHANGED <<ocr_text, cleaned_text, table_lines, is_table, table_data,
                 df, result, data_table, history, run>>

\* line 86
BuildFrame ==
  /\ pc = "frame"
  /\ LET f == DataFrame(data, headers)
     IN  IF f.status = "raise"
         THEN /\ result' = f
              /\ pc' = "done"
              /\ UNCHANGED df
         ELSE /\ df' = f
              /\ pc' = "filter"
              /\ UNCHANGED result
  /\ UNCHANGED <<ocr_text, cleaned_text, table_lines, is_table, table_data,
                 headers, data, data_table, history, run>>

\* lines 89-91
DropSentinel ==
  /\ pc = "filter"
  /\ LET f == drop_sentinel(df)
     IN  IF f.status = "raise"
         THEN /\ result' = f
              /\ pc' = "done"
              /\ UNCHANGED df
         ELSE /\ df' = reset_index(f)
              /\ pc' = "coerce"
              /\ UNCHANGED result
  /\ UNCHANGED <<ocr_text, cleaned_text, table_lines, is_table, table_data,
                 headers, data, data_table, history, run>>

\* lines 94-96
CoerceAndReturn ==
  /\ pc = "coerce"
  /\ LET f == coerce_columns(df)
     IN  /\ result' = f
         /\ df' = IF f.status = "raise" THEN df ELSE f
  /\ pc' = "done"
  /\ UNCHANGED <<ocr_text, cleaned_text, table_lines, is_table, table_data,
                 headers, data, data_table, history, run>>

Next ==
  \/ StripEmphasis
  \/ SplitLines
  \/ ScanLines
  \/ ReturnEmpty
  \/ PadRows
  \/ BuildFrame
  \/ DropSentinel
  \/ CoerceAndReturn

Spec == Init /\ [][Next]_vars

----------------------------------------------------------------------------
(* The host: the loop of the Upload & OCR tab over the uploaded files       *)

HostInit ==
  /\ pc = "host"
  /\ ocr_text = <<>>
  /\ ParserInit
  /\ data_table = EmptyFrame
  /\ history = <<>>
  /\ run = "loop"

HostFrame ==
  UNCHANGED <<pc, ocr_text, cleaned_text, table_lines, is_table, table_data,
              headers, data, df, result>>

\* Faulty variant of StoreTable: the rows are appended to the slot's rows
StoreTable_merge(text) ==
  /\ run = "loop"
  /\ Len(history) < MaxFiles
  /\ LET ocr_data == parse_markdown_table(text)
     IN  /\ ocr_data.status = "ok"
         /\ ~empty(ocr_data)
         /\ data_table' = Frame(ocr_data.columns,
                                RangeIndex(Len(data_table.rows) + Len(ocr_data.rows)),
                                data_table.rows \o ocr_data.rows)
  /\ history' = Append(history, text)
  /\ UNCHANGED run
  /\ HostFrame

\* lines 131-136: a frame that is not empty replaces the slot
StoreTable(text) ==
  /\ run = "loop"
  /\ Len(history) < MaxFiles
  /\ LET ocr_data == parse_markdown_table(text)
     IN  /\ ocr_data.status = "ok"
         /\ ~empty(ocr_data)
         /\ data_table' = ocr_data
  /\ history' = Append(history, text)
  /\ UNCHANGED run
  /\ HostFrame

\* lines 131-132, 137-138: an empty frame leaves the slot alone
ReportNoData(text) ==
  /\ run = "loop"
  /\ Len(history) < MaxFiles
  /\ LET ocr_data == parse_markdown_table(text)
     IN  /\ ocr_data.status = "ok"
         /\ empty(ocr_data)
  /\ history' = Append(history, text)
  /\ UNCHANGED <<data_table, run>>
  /\ HostFrame

\* line 131: the exception of parse_markdown_table ends the script run
ParseRaises(text) ==
  /\ run = "loop"
  /\ Len(history) < MaxFiles
  /\ parse_markdown_table(text).status = "raise"
  /\ history' = Append(history, text)
  /\ run' = "aborted"
  /\ UNCHANGED data_table
  /\ HostFrame

\* lines 12-13: the next script run of the session finds "data_table" set
Rerun ==
  /\ run = "aborted"
  /\ run' = "loop"
  /\ UNCHANGED <<data_table, history>>
  /\ HostFrame

HostNext ==
  \/ \E text \in HostTexts : StoreTable(text)
  \/ \E text \in HostTexts : ReportNoData(text)
  \/ \E text \in HostTexts : ParseRaises(text)
  \/ Rerun

HostSpec == HostInit /\ [][HostNext]_vars

----------------------------------------------------------------------------
(* Vocabulary of the properties, stated on the text itself                  *)

HasPipe(s) == \E i \in 1..Len(s) : s[i] = "|"

HasRule(s) ==
  \E i \in 1..(Len(s) - 2) : s[i] = "-" /\ s[i + 1] = "-" /\ s[i + 2] = "-"

\* The lines of the cleaned text that are data lines: a pipe and no "---"
DataLineIdx ==
  {i \in 1..Len(table_lines) :
     HasPipe(table_lines[i]) /\ ~HasRule(table_lines[i])}

\* The place of i among the members of the set K of places
PlaceIn(K, i) == Cardinality({k \in K : k <= i})

\* c is the letter u of the sentinel in either case
Folds(c, u) ==
  c = u \/ \E i \in 1..26 : UpperCase[i] = u /\ LowerCase[i] = c

HasLevels(s) ==
  \E off \in 0..(Len(s) - Len(SENTINEL)) :
     \A k \in 1..Len(SENTINEL) : Folds(s[off + k], SENTINEL[k])

\* The body rows (places in data) that sentinel removal must keep
KeptIdx == {i \in 1..Len(data) : ~HasLevels(data[i][1])}

Scanned == pc \in {"format", "frame", "filter", "coerce", "done"}

Padded == pc \in {"frame", "filter", "coerce", "done"} /\ table_data # <<>>

\* parse_markdown_table returned the table it built from collected rows
Returned == pc = "done" /\ result.status = "ok" /\ table_data # <<>>

----------------------------------------------------------------------------
(* C1 *)

\* C1: parse_markdown_table never raises: whenever the call has ended, it has
\* ended by returning a table.
NeverRaises == pc = "done" => result.status = "ok"

----------------------------------------------------------------------------
(* C2 *)

\* C2: padding law.  For a header of h cells and a body line of k < h cells,
\* the row after shape repair has h cells, the first k the tokenized cells in
\* order and the other h-k the empty string; in a returned table that row has
\* h cells, its first cell is the string left by shape repair, and each padded
\* cell outside the first column is the missing marker.
PaddingLaw ==
  /\ Padded =>
       /\ Len(data) = Len(table_data) - 1
       /\ \A i \in 1..Len(data) :
            LET body == table_data[i + 1]
                h    == Len(table_data[1])
                k    == Len(body)
            IN  k < h =>
                  /\ Len(data[i]) = h
                  /\ \A j \in 1..k : data[i][j] = body[j]
                  /\ \A j \in (k + 1)..h : data[i][j] = <<>>
  /\ Returned =>
       LET K == KeptIdx
       IN  \A i \in K :
          LET body == table_data[i + 1]
              h    == Len(table_data[1])
              k    == Len(body)
              row  == result.rows[PlaceIn(K, i)]
          IN  k < h =>
                /\ Len(row) = h
                /\ row[1] = Str(IF k = 0 THEN <<>> ELSE body[1])
                /\ \A j \in (k + 1)..h : j > 1 => row[j] = Missing

\* A returned table with a two-column header and a one-cell body line
PaddingLawWitness ==
  /\ Returned
  /\ Len(headers) = 2
  /\ \E i \in KeptIdx :
        /\ Len(table_data[i + 1]) = 1
        /\ result.rows[PlaceIn(KeptIdx, i)][2] = Missing

----------------------------------------------------------------------------
(* C3 *)

\* C3: sentinel removal.  In a returned table no row's first column holds
\* "EXISTING LEVELS" in any case, every other body row is there once, at the
\* place its source order gives it, and the index is 0, 1, 2, ...
SentinelRemoval ==
  Returned =>
    LET K == KeptIdx
    IN
    /\ Len(result.rows) = Cardinality(K)
    /\ \A p \in 1..Len(result.rows) : ~HasLevels(result.rows[p][1].s)
    /\ \A i \in K :
         /\ result.rows[PlaceIn(K, i)][1] = Str(data[i][1])
         /\ \A j \in 2..Len(headers) :
               result.rows[PlaceIn(K, i)][j] = to_numeric(data[i][j])
    /\ result.index = [p \in 1..Len(result.rows) |-> p - 1]

\* A sentinel row removed from between two rows that are kept
SentinelRemovalWitness ==
  /\ Returned
  /\ Len(result.rows) = 2
  /\ \E i, j, l \in 1..Len(data) :
        /\ i < j /\ j < l
        /\ i \in KeptIdx /\ l \in KeptIdx /\ j \notin KeptIdx
        /\ data[i] # data[l]

----------------------------------------------------------------------------
(* C4 *)

\* C4: column typing.  In a returned table every cell outside the first
\* column is a number or the missing marker, and every cell of the first
\* column is still the string that tokenization and padding left there.
ColumnTyping ==
  pc = "done" /\ result.status = "ok" =>
    /\ \A p \in 1..Len(result.rows) :
         /\ Len(result.rows[p]) = Len(result.columns)
         /\ \A j \in 2..Len(result.columns) :
               result.rows[p][j].kind \in {"num", "missing"}
         /\ Len(result.columns) >= 1 => result.rows[p][1].kind = "str"
    /\ table_data # <<>> =>
         LET K == KeptIdx
         IN  \A i \in K : result.rows[PlaceIn(K, i)][1] = Str(data[i][1])

\* A returned row whose first cell reads as a number and stays a string, with
\* a number and a missing marker in second columns
ColumnTypingWitness ==
  /\ Returned
  /\ Len(headers) = 2
  /\ \E p, q, r \in 1..Len(result.rows) :
        /\ result.rows[p][1] = Str(<<"7">>)
        /\ result.rows[q][2].kind = "num"
        /\ result.rows[r][2].kind = "missing"

----------------------------------------------------------------------------
(* C5 *)

\* C5: separator skipping.  The rows collected are exactly the tokenized data
\* lines, in order, as if every line with a pipe and "---" were absent: such
\* a line of the raw text is a separator of the cleaned text wherever it
\* stands, and no collected cell, header or first-column value holds "---".
SeparatorSkipped ==
  /\ Scanned =>
       LET D == DataLineIdx
       IN
       /\ Len(table_data) = Cardinality(D)
       /\ \A i \in D : table_data[PlaceIn(D, i)] = tokenize(table_lines[i])
       /\ \A r \in 1..Len(table_data) :
             \A j \in 1..Len(table_data[r]) : ~HasRule(table_data[r][j])
  /\ pc = "format" =>
       LET raw == splitlines(ocr_text)
       IN  /\ Len(raw) = Len(table_lines)
           /\ \A i \in 1..Len(raw) :
                 HasPipe(raw[i]) /\ HasRule(raw[i]) => i \notin DataLineIdx
  /\ pc = "done" /\ result.status = "ok" =>
       /\ \A j \in 1..Len(result.columns) : ~HasRule(result.columns[j])
       /\ \A p \in 1..Len(result.rows) :
             Len(result.columns) >= 1 => ~HasRule(result.rows[p][1].s)

\* A separator between two data lines, both collected
SeparatorSkippedWitness ==
  /\ Returned
  /\ Len(table_data) = 2
  /\ \E i, j, l \in 1..Len(table_lines) :
        /\ i < j /\ j < l
        /\ i \in DataLineIdx /\ l \in DataLineIdx
        /\ HasPipe(table_lines[j]) /\ HasRule(table_lines[j])

----------------------------------------------------------------------------
(* C6 *)

\* C6: single header, no body.  A text with exactly one data line yields a
\* table whose headers are that line's cells and which has no row.
SingleHeaderNoBody ==
  pc = "done" /\ Cardinality(DataLineIdx) = 1 =>
    /\ result.status = "ok"
    /\ \A i \in DataLineIdx : result.columns = tokenize(table_lines[i])
    /\ result.rows = <<>>

----------------------------------------------------------------------------
(* C7 *)

\* c is **x** for an x without a star
IsWrapper(c) ==
  /\ Len(c) >= 5
  /\ c[1] = "*" /\ c[2] = "*" /\ c[Len(c) - 1] = "*" /\ c[Len(c)] = "*"
  /\ \A k \in 3..(Len(c) - 2) : c[k] # "*"

\* C7: emphasis stripping.  Every cell of the raw text that is a wrapper **x**
\* is, in the cleaned text, its inner text x with the markers removed.
EmphasisStripped ==
  pc \in {"split", "scan", "format", "frame", "filter", "coerce", "done"} =>
    LET raw == splitlines(ocr_text)
        cl  == splitlines(cleaned_text)
    IN  /\ Len(raw) = Len(cl)
        /\ \A i \in 1..Len(raw) :
              LET rs == split(raw[i], "|")
                  cs == split(cl[i], "|")
              IN  /\ Len(rs) = Len(cs)
                  /\ \A j \in 1..Len(rs) :
                        IsWrapper(strip(rs[j])) =>
                          strip(cs[j]) =
                            strip(SubSeq(strip(rs[j]), 3, Len(strip(rs[j])) - 2))

----------------------------------------------------------------------------
(* C8 *)

\* C8: no usable data.  A text without a pipe, and any text from which no
\* data line is collected, yields the empty table: no headers and no rows.
NoUsableData ==
  pc = "done" /\ (~HasPipe(ocr_text) \/ DataLineIdx = {}) =>
    result = EmptyFrame

\* Two lines or more, with a pipe, and still the empty table
NoUsableDataWitness ==
  /\ pc = "done"
  /\ result = EmptyFrame
  /\ HasPipe(ocr_text)
  /\ Len(table_lines) >= 2
  /\ \E i \in 1..Len(table_lines) : ~HasPipe(table_lines[i])

----------------------------------------------------------------------------
(* C9 *)

\* The call returned a table with a header: anything but "no usable data"
HasData(f) == f.status = "ok" /\ f.columns # <<>>

\* The call returned a table with a header and at least one row
HasRows(f) == f.status = "ok" /\ f.columns # <<>> /\ f.rows # <<>>

\* The table of the last call of h that returned data, and the empty frame
\* of session start when there is none
LastDataTable(h) ==
  LET calls == {i \in 1..Len(h) : HasData(parse_markdown_table(h[i]))}
  IN  IF calls = {} THEN EmptyFrame
      ELSE parse_markdown_table(h[SetMax(calls)])

\* The table of the last call of h that returned a row, and the empty frame
\* of session start when there is none
LastRowsTable(h) ==
  LET calls == {i \in 1..Len(h) : HasRows(parse_markdown_table(h[i]))}
  IN  IF calls = {} THEN EmptyFrame
      ELSE parse_markdown_table(h[SetMax(calls)])

----------------------------------------------------------------------------
(* C10 *)

\* Only delimiters and whitespace, with a pipe, and not a separator
OnlyDelimiters(line) ==
  /\ HasPipe(line)
  /\ \A k \in 1..Len(line) : line[k] \in {"|", " ", "\t"}

\* C10: empty-row retention.  A line of only delimiters and whitespace is
\* collected as an empty cell sequence; as a body line it is padded to the
\* header width with empty strings; and a returned table holds one row of
\* empty cells (the empty string, then missing markers) for each such line.
EmptyRowRetained ==
  /\ Scanned =>
       \A i \in 1..Len(table_lines) :
          OnlyDelimiters(table_lines[i]) =>
            /\ i \in DataLineIdx
            /\ PlaceIn(DataLineIdx, i) <= Len(table_data)
            /\ table_data[PlaceIn(DataLineIdx, i)] = <<>>
  /\ Padded =>
       \A b \in 1..Len(data) :
          table_data[b + 1] = <<>> =>
            data[b] = [j \in 1..Len(headers) |-> <<>>]
  /\ Returned =>
       /\ Cardinality({p \in 1..Len(result.rows) : result.rows[p][1] = Str(<<>>)})
            = Cardinality({b \in 1..Len(data) : table_data[b + 1] = <<>>})
       /\ \A p \in 1..Len(result.rows) :
             result.rows[p][1] = Str(<<>>) =>
               \A j \in 2..Len(headers) : result.rows[p][j] = Missing

\* A returned two-column table with a row that came from a line of delimiters
EmptyRowRetainedWitness ==
  /\ Returned
  /\ Len(headers) = 2
  /\ \E i \in 2..Len(table_lines) : OnlyDelimiters(table_lines[i])
  /\ \E p \in 1..Len(result.rows) :
        result.rows[p] = <<Str(<<>>), Missing>>

====
